---- MODULE Spec2Model ----
(***************************************************************************)
(* A model of the arxiv assistant plugin: the ArxivApi class (metadata     *)
(* fetch, citation fetch, abstract normalization, influential-paper        *)
(* filter) and the 'get-text-from-pdf' command of the plugin's onload.     *)
(*                                                                         *)
(* A string is a sequence of characters, each character a one-element      *)
(* token.  The Hangul syllables of the literal fallbacks are written as    *)
(* romanized tokens ("je", "mok", ...), one token per syllable.            *)
(***************************************************************************)
EXTENDS Integers, Sequences, FiniteSets, TLC

VARIABLES
    \* a run of formatAbstract on a text, and on its result
    absText, absOut, absOut2, absPc,
    \* a call of fetchArxivMetadata
    url, metaPc, requests, metaResp, metaResult, metaError,
    \* a run of getInfluentialPapers
    papersIn, papersOut, filterPc,
    \* a call of fetchCitationInfo
    citePc, citeResp, citeResult,
    \* the vault and the running 'get-text-from-pdf' callbacks
    pdf, dest, pc, txt, notice, stage, issued, lastWritten, lastWriterOk

absVars == <<absText, absOut, absOut2, absPc>>
metaVars == <<url, metaPc, requests, metaResp, metaResult, metaError>>
filterVars == <<papersIn, papersOut, filterPc>>
citeVars == <<citePc, citeResp, citeResult>>
pdfVars == <<pdf, dest, pc, txt, notice, stage, issued, lastWritten, lastWriterOk>>
vars == <<absVars, metaVars, filterVars, citeVars, pdfVars>>

\* What a step of one part of the program leaves alone.
notAbs == <<metaVars, filterVars, citeVars, pdfVars>>
notMeta == <<absVars, filterVars, citeVars, pdfVars>>
notFilter == <<absVars, metaVars, citeVars, pdfVars>>
notCite == <<absVars, metaVars, filterVars, pdfVars>>
notPdf == <<absVars, metaVars, filterVars, citeVars>>

NULL == <<"null">>

(***************************************************************************)
(* Bounds of the model.                                                    *)
(***************************************************************************)
MaxAbstractLen == 5
MaxFieldLen == 2
MaxPapers == 3
NumInvocations == 2

(***************************************************************************)
(* String helpers: what String.prototype.trim, replace(/x+/g, r), split    *)
(* and Array.prototype.join do.                                            *)
(***************************************************************************)
Newline == "\n"
Whitespace == {" ", "\n", "\t"}

Min(S) == CHOOSE m \in S : \A n \in S : m <= n
Max(S) == CHOOSE m \in S : \A n \in S : m >= n

\* All strings over alphabet A of length at most n.
StringsUpTo(A, n) == UNION {[1..k -> A] : k \in 0..n}

\* String.prototype.trim: strips leading and trailing whitespace.
Trim(s) ==
    LET solid == {i \in 1..Len(s) : s[i] \notin Whitespace}
    IN IF solid = {} THEN <<>> ELSE SubSeq(s, Min(solid), Max(solid))

\* s without its longest prefix of characters of cls.
RECURSIVE DropRun(_, _)
DropRun(s, cls) ==
    IF s # <<>> /\ Head(s) \in cls THEN DropRun(Tail(s), cls) ELSE s

\* s.replace(/[cls]+/g, rep): every maximal run of cls characters becomes rep.
RECURSIVE ReplaceRuns(_, _, _)
ReplaceRuns(s, cls, rep) ==
    IF s = <<>> THEN <<>>
    ELSE IF Head(s) \in cls
         THEN rep \o ReplaceRuns(DropRun(s, cls), cls, rep)
         ELSE <<Head(s)>> \o ReplaceRuns(Tail(s), cls, rep)

\* s.split(c) for a one-character separator: always at least one piece.
RECURSIVE Split(_, _)
Split(s, c) ==
    IF \A i \in 1..Len(s) : s[i] # c THEN <<s>>
    ELSE LET k == Min({i \in 1..Len(s) : s[i] = c})
         IN <<SubSeq(s, 1, k - 1)>> \o Split(SubSeq(s, k + 1, Len(s)), c)

\* parts.join(sep)
RECURSIVE Join(_, _)
Join(parts, sep) ==
    IF parts = <<>> THEN <<>>
    ELSE IF Len(parts) = 1 THEN parts[1]
         ELSE parts[1] \o sep \o Join(Tail(parts), sep)

\* parts.map(para => para.trim())
TrimEach(parts) == [i \in 1..Len(parts) |-> Trim(parts[i])]

(***************************************************************************)
(* ArxivApi.formatAbstract                                                 *)
(***************************************************************************)
\* A variant that collapses only blanks and tabs and keeps the newlines as
\* they are, so that the split finds paragraphs.
formatAbstractKeepNewlines(text) ==
    Join(TrimEach(Split(ReplaceRuns(Trim(text), {" ", "\t"}, <<" ">>), Newline)),
         <<Newline, Newline>>)

formatAbstract(text) ==
    Join(TrimEach(Split(ReplaceRuns(ReplaceRuns(Trim(text),
                                                {Newline}, <<Newline>>),
                                    Whitespace, <<" ">>),
                        Newline)),
         <<Newline, Newline>>)

(***************************************************************************)
(* extractArxivId (utils/urlUtils): the first occurrence of the identifier *)
(* pattern, four digits, a dot, four or five digits and an optional        *)
(* version suffix "v" digits; NULL when the input holds no such pattern.   *)
(***************************************************************************)
Digits == {"0", "1", "2", "4", "6"}

AllDigits(s, from, to) ==
    /\ to <= Len(s)
    /\ \A i \in from..to : s[i] \in Digits

RECURSIVE DigitRunEnd(_, _)
\* The last index of the run of digits that starts at index i (i - 1 if none).
DigitRunEnd(s, i) ==
    IF i <= Len(s) /\ s[i] \in Digits THEN DigitRunEnd(s, i + 1) ELSE i - 1

IdMatchAt(s, i) ==
    /\ AllDigits(s, i, i + 3)
    /\ i + 4 <= Len(s) /\ s[i + 4] = "."
    /\ AllDigits(s, i + 5, i + 8)

IdEndAt(s, i) ==
    LET core == IF AllDigits(s, i + 9, i + 9) THEN i + 9 ELSE i + 8
    IN IF core + 2 <= Len(s) /\ s[core + 1] = "v" /\ s[core + 2] \in Digits
       THEN DigitRunEnd(s, core + 2)
       ELSE core

extractArxivId(input) ==
    LET starts == {i \in 1..Len(input) : IdMatchAt(input, i)}
    IN IF starts = {} THEN NULL
       ELSE SubSeq(input, Min(starts), IdEndAt(input, Min(starts)))

(***************************************************************************)
(* ArxivApi.parseArxivResponse.  The parsed document is the sequence of    *)
(* its entry elements in document order; an entry gives, for each of       *)
(* title, id, published and summary, the text of its first such element    *)
(* (NULL when it has none), and the texts of its author name elements.     *)
(***************************************************************************)
NoTitle == <<"je", "mok", " ", "eops", "eum">>
NoDate == <<"nal", "jja", " ", "eops", "eum">>
NoAbstract == <<"A", "b", "s", "t", "r", "a", "c", "t", " ", "eops", "eum">>

\* JavaScript's a || b on strings: the empty string is falsy.
OrElse(text, fallback) == IF text = <<>> THEN fallback ELSE text

\* xmlDoc.querySelector('entry'): the first entry, as a sequence of length <= 1.
querySelectorLastEntry(xmlDoc) ==
    IF xmlDoc = <<>> THEN <<>> ELSE <<xmlDoc[Len(xmlDoc)]>>

querySelectorEntry(xmlDoc) ==
    IF xmlDoc = <<>> THEN <<>> ELSE <<xmlDoc[1]>>

titleOf(entry) ==
    IF entry.title = NULL THEN NoTitle ELSE OrElse(Trim(entry.title), NoTitle)

paperLinkOf(entry) ==
    IF entry.id = NULL THEN <<>> ELSE OrElse(entry.id, <<>>)

\* The published text taken whole, without the split on 'T'.
publishDateWholeText(entry) ==
    IF entry.published = NULL THEN NoDate ELSE OrElse(entry.published, NoDate)

publishDateOf(entry) ==
    IF entry.published = NULL THEN NoDate
    ELSE OrElse(Split(entry.published, "T")[1], NoDate)

authorsOf(entry) == Join(entry.authors, <<",", " ">>)

abstractOf(entry) ==
    formatAbstract(IF entry.summary = NULL THEN NoAbstract
                   ELSE OrElse(entry.summary, NoAbstract))

parseArxivResponse(xmlDoc) ==
    LET entry == querySelectorEntry(xmlDoc)
    IN IF entry = <<>>
       THEN [error |-> "NotFound", value |-> <<>>]
       ELSE [error |-> "none",
             value |-> <<[title |-> titleOf(entry[1]),
                          paperLink |-> paperLinkOf(entry[1]),
                          publishDate |-> publishDateOf(entry[1]),
                          authors |-> authorsOf(entry[1]),
                          abstract |-> abstractOf(entry[1])]>>]

(***************************************************************************)
(* ArxivApi.fetchArxivMetadata: the code up to the request, and the code   *)
(* after the response.                                                     *)
(***************************************************************************)
HttpOk == 200

ApiUrl(arxivId) == <<"https://export.arxiv.org/api/query?id_list=">> \o arxivId
UserAgent == "ObsidianArxivPlugin/1.0"

\* !arxivId: null and the empty string are falsy.
Falsy(id) == id = NULL \/ id = <<>>

\* A variant that issues the request before it looks at the identifier.
fetchArxivMetadataRequestFirst(u, sent) ==
    LET arxivId == extractArxivId(u)
        after == Append(sent, [url |-> ApiUrl(arxivId), userAgent |-> UserAgent])
    IN IF Falsy(arxivId)
       THEN [pc |-> "failed", error |-> "InvalidInput", requests |-> after]
       ELSE [pc |-> "awaiting", error |-> "none", requests |-> after]

\* Lines 7-19: what the call does before it suspends on the request.
fetchArxivMetadataBegin(u, sent) ==
    LET arxivId == extractArxivId(u)
    IN IF Falsy(arxivId)
       THEN [pc |-> "failed", error |-> "InvalidInput", requests |-> sent]
       ELSE [pc |-> "awaiting", error |-> "none",
             requests |-> Append(sent, [url |-> ApiUrl(arxivId),
                                        userAgent |-> UserAgent])]

\* Lines 21-25: what the call does with the response.
fetchArxivMetadataEnd(response) ==
    IF response.status # HttpOk
    THEN [error |-> "UpstreamError", value |-> <<>>]
    ELSE parseArxivResponse(response.feed)

PaperId == <<"2", "4", "0", "4", ".", "1", "6", "2", "6", "0">>
Urls ==
    { PaperId,
      <<"a", "b", "s", "/">> \o PaperId \o <<"v", "1">>,
      <<"n", "o", "t", " ", "a", " ", "u", "r", "l">>,
      <<"2", "4", "0", "4", ".", "1", "6">>,
      <<>> }

OptTexts(A) == {NULL} \cup StringsUpTo(A, MaxFieldLen)
PaperLink == <<"http://arxiv.org/abs/">> \o PaperId
OtherLink == <<"http://arxiv.org/abs/">> \o <<"0", "0", "0", "0", ".", "0", "0", "0", "0">>

Entries ==
    [title : OptTexts({"a", " "}),
     id : {NULL, PaperLink},
     published : OptTexts({"2", "T"}),
     summary : OptTexts({"a", "\n"}),
     authors : {<<>>, <<<<"a">>>>, <<<<"a">>, <<"b">>>>}]

\* A second entry of the feed, different from every first entry.
OtherEntry ==
    [title |-> <<"b">>, id |-> OtherLink, published |-> <<"1">>,
     summary |-> <<"b">>, authors |-> <<<<"c">>>>]

Feeds == {<<>>} \cup {<<e>> : e \in Entries} \cup {<<e, OtherEntry>> : e \in Entries}
Statuses == {HttpOk, 204, 404}

FetchMetadataBegin ==
    /\ metaPc = "start"
    /\ LET r == fetchArxivMetadataBegin(url, requests)
       IN /\ metaPc' = r.pc
          /\ metaError' = r.error
          /\ requests' = r.requests
    /\ UNCHANGED <<url, metaResp, metaResult, notMeta>>

\* requestUrl resolves; the rest of the function runs.
FetchMetadataEnd ==
    /\ metaPc = "awaiting"
    /\ \E response \in ([status : {HttpOk}, feed : Feeds]
                        \cup [status : Statuses \ {HttpOk}, feed : {<<>>}]) :
          LET r == fetchArxivMetadataEnd(response)
          IN /\ metaResp' = <<response>>
             /\ metaError' = r.error
             /\ metaResult' = r.value
             /\ metaPc' = IF r.error = "none" THEN "done" ELSE "failed"
    /\ UNCHANGED <<url, requests, notMeta>>

\* requestUrl rejects; the rejection propagates to the caller.
FetchMetadataRejected ==
    /\ metaPc = "awaiting"
    /\ metaPc' = "failed"
    /\ metaError' = "Transport"
    /\ UNCHANGED <<url, requests, metaResp, metaResult, notMeta>>

MetaNext == FetchMetadataBegin \/ FetchMetadataEnd \/ FetchMetadataRejected

(***************************************************************************)
(* Normalizing an abstract, and normalizing the result again.              *)
(***************************************************************************)
AbstractAlphabet == {"a", " ", "\n", "\t"}

Normalize ==
    /\ absPc = "input"
    /\ absOut' = formatAbstract(absText)
    /\ absPc' = "once"
    /\ UNCHANGED <<absText, absOut2, notAbs>>

NormalizeAgain ==
    /\ absPc = "once"
    /\ absOut2' = formatAbstract(absOut)
    /\ absPc' = "twice"
    /\ UNCHANGED <<absText, absOut, notAbs>>

AbsNext == Normalize \/ NormalizeAgain

(***************************************************************************)
(* JavaScript values of the parsed JSON body: k is the type, n the number  *)
(* (or 1/0 for true/false), s the string.                                  *)
(***************************************************************************)
JsUndefined == [k |-> "undefined", n |-> 0, s |-> <<>>]
JsNull == [k |-> "null", n |-> 0, s |-> <<>>]
JsNum(n) == [k |-> "number", n |-> n, s |-> <<>>]
JsStr(s) == [k |-> "string", n |-> 0, s |-> s]
JsTrue == [k |-> "boolean", n |-> 1, s |-> <<>>]
JsFalse == [k |-> "boolean", n |-> 0, s |-> <<>>]

Truthy(v) ==
    CASE v.k = "undefined" -> FALSE
      [] v.k = "null" -> FALSE
      [] v.k = "number" -> v.n # 0
      [] v.k = "boolean" -> v.n = 1
      [] v.k = "string" -> v.s # <<>>
      [] OTHER -> TRUE

\* a || b
JsOr(a, b) == IF Truthy(a) THEN a ELSE b

\* What join writes for an element: nothing for undefined and null.
JoinText(v) == IF v.k = "string" THEN v.s ELSE <<>>

(***************************************************************************)
(* ArxivApi.getInfluentialPapers.  A list is [k, items]: k = "array" with  *)
(* its items, or the type of a value that is no array.  A paper is         *)
(* [k = "object", ...fields] or [k = "null"].  The result is               *)
(* [threw, value]: threw when evaluating the expression raises a           *)
(* TypeError.                                                              *)
(***************************************************************************)
Absent == [k |-> "undefined", items |-> <<>>]
NullList == [k |-> "null", items |-> <<>>]
NotAnArray == [k |-> "number", items |-> <<>>]
ArrayOf(items) == [k |-> "array", items |-> items]

\* paper.authors?.map(author => author.name).join(', ') || ''
AuthorsThrow(authors) ==
    \/ authors.k \notin {"undefined", "null", "array"}
    \/ \E i \in 1..Len(authors.items) : authors.items[i].k # "object"

AuthorsText(authors) ==
    Join([i \in 1..Len(authors.items) |-> JoinText(authors.items[i].name)],
         <<",", " ">>)

\* papers.filter(paper => paper.isInfluential), with any flag accepted.
KeptPositionsAll(items) == {i \in 1..Len(items) : TRUE}

KeptPositions(items) == {i \in 1..Len(items) : Truthy(items[i].isInfluential)}

\* The elements of the set of positions S, in increasing order.
RECURSIVE Ascending(_)
Ascending(S) == IF S = {} THEN <<>> ELSE <<Min(S)>> \o Ascending(S \ {Min(S)})

InfluentialPaper(paper) ==
    [paperId |-> paper.paperId,
     title |-> paper.title,
     url |-> paper.url,
     venue |-> paper.venue,
     year |-> paper.year,
     authors |-> AuthorsText(paper.authors),
     arxivId |-> paper.arxivId,
     doi |-> paper.doi,
     isInfluential |-> paper.isInfluential,
     citationCount |-> paper.citationCount,
     intent |-> paper.intent]

getInfluentialPapers(papers) ==
    IF papers.k \in {"undefined", "null"}
    THEN [threw |-> FALSE, value |-> <<>>]
    ELSE IF papers.k # "array"
    THEN [threw |-> TRUE, value |-> <<>>]
    ELSE IF \E i \in 1..Len(papers.items) : papers.items[i].k # "object"
    THEN [threw |-> TRUE, value |-> <<>>]
    ELSE LET kept == Ascending(KeptPositions(papers.items))
         IN IF \E j \in 1..Len(kept) : AuthorsThrow(papers.items[kept[j]].authors)
            THEN [threw |-> TRUE, value |-> <<>>]
            ELSE [threw |-> FALSE,
                  value |-> [j \in 1..Len(kept) |->
                                InfluentialPaper(papers.items[kept[j]])]]

Author(name) == [k |-> "object", name |-> name]
NullAuthor == [k |-> "null", name |-> JsUndefined]

\* The raw record at position i of a response list.
RawPaper(i, flag, authors) ==
    [k |-> "object", paperId |-> i, title |-> <<"t">>, url |-> <<"u">>,
     venue |-> <<"v">>, year |-> 2024, authors |-> authors,
     arxivId |-> PaperId, doi |-> <<"d">>, isInfluential |-> flag,
     citationCount |-> i, intent |-> <<<<"background">>>>]
NullPaper == [RawPaper(0, JsUndefined, Absent) EXCEPT !.k = "null"]

\* The flag and the authors of the raw records fed to the filter.
PaperShapes ==
    { <<JsTrue, ArrayOf(<<Author(JsStr(<<"A">>)), Author(JsStr(<<"B">>))>>)>>,
      <<JsTrue, Absent>>,
      <<JsNum(1), ArrayOf(<<Author(JsStr(<<"A">>))>>)>>,
      <<JsFalse, ArrayOf(<<Author(JsStr(<<"A">>))>>)>>,
      <<JsFalse, Absent>>,
      <<JsUndefined, ArrayOf(<<>>)>> }

PaperLists ==
    {Absent} \cup
    UNION { { ArrayOf([i \in 1..n |-> RawPaper(i, f[i][1], f[i][2])]) :
                f \in [1..n -> PaperShapes] } : n \in 0..MaxPapers }

FilterPapers ==
    /\ filterPc = "input"
    /\ papersOut' = getInfluentialPapers(papersIn)
    /\ filterPc' = "done"
    /\ UNCHANGED <<papersIn, notFilter>>

FilterNext == FilterPapers

(***************************************************************************)
(* ArxivApi.fetchCitationInfo.  The outcome of the request is a rejection  *)
(* or a response [status, body]; the body is text that JSON.parse rejects  *)
(* (valid = FALSE) or text of the JSON value data.                         *)
(***************************************************************************)
ZeroCitationInfo ==
    [numCitedBy |-> JsNum(0), numCiting |-> JsNum(0),
     influentialCitations |-> <<>>, influentialReferences |-> <<>>]

\* Reading a property of data raises for null; any other value that is no
\* object has none of the properties.
Property(data, name) ==
    IF data.k = "object" THEN data[name] ELSE JsUndefined
ListProperty(data, name) ==
    IF data.k = "object" THEN data[name] ELSE Absent

\* Lines 34-41: the body of the try block, given the response.
CitationTry(response) ==
    IF response.status # HttpOk THEN [threw |-> FALSE, returned |-> FALSE,
                                      value |-> ZeroCitationInfo]
    ELSE IF ~response.body.valid \/ response.body.data.k = "null"
    THEN [threw |-> TRUE, returned |-> FALSE, value |-> ZeroCitationInfo]
    ELSE LET data == response.body.data
             cits == getInfluentialPapers(ListProperty(data, "citations"))
             refs == getInfluentialPapers(ListProperty(data, "references"))
         IN IF cits.threw \/ refs.threw
            THEN [threw |-> TRUE, returned |-> FALSE, value |-> ZeroCitationInfo]
            ELSE [threw |-> FALSE, returned |-> TRUE,
                  value |-> [numCitedBy |-> JsOr(Property(data, "numCitedBy"), JsNum(0)),
                             numCiting |-> JsOr(Property(data, "numCiting"), JsNum(0)),
                             influentialCitations |-> cits.value,
                             influentialReferences |-> refs.value]]

\* A variant without the try/catch: what is thrown reaches the caller.
fetchCitationInfoNoCatch(outcome) ==
    IF outcome.rejected THEN [raised |-> TRUE, value |-> ZeroCitationInfo]
    ELSE LET t == CitationTry(outcome.response)
         IN [raised |-> t.threw, value |-> t.value]

\* Lines 32-52: the try block, the catch that logs, and the final return.
fetchCitationInfo(outcome) ==
    IF outcome.rejected THEN [raised |-> FALSE, value |-> ZeroCitationInfo]
    ELSE LET t == CitationTry(outcome.response)
         IN IF t.returned THEN [raised |-> FALSE, value |-> t.value]
            ELSE [raised |-> FALSE, value |-> ZeroCitationInfo]

NumberValues ==
    {JsUndefined, JsNull, JsNum(0), JsNum(3), JsNum(-1), JsStr(<<"7">>), JsTrue}
ResponseLists ==
    { Absent, NullList, NotAnArray, ArrayOf(<<>>),
      ArrayOf(<<RawPaper(1, JsFalse, Absent),
                RawPaper(2, JsTrue, ArrayOf(<<Author(JsStr(<<"A">>))>>))>>),
      ArrayOf(<<NullPaper>>),
      ArrayOf(<<RawPaper(1, JsTrue, NotAnArray)>>),
      ArrayOf(<<RawPaper(1, JsTrue, ArrayOf(<<NullAuthor>>))>>) }
DataValues ==
    [k : {"object"}, numCitedBy : NumberValues, numCiting : NumberValues,
     citations : ResponseLists, references : ResponseLists]
    \cup [k : {"null", "number"}, numCitedBy : {JsUndefined}, numCiting : {JsUndefined},
          citations : {Absent}, references : {Absent}]
NoData ==
    [k |-> "null", numCitedBy |-> JsUndefined, numCiting |-> JsUndefined,
     citations |-> Absent, references |-> Absent]
Bodies == [valid : {TRUE}, data : DataValues] \cup [valid : {FALSE}, data : {NoData}]
NoResponse == [status |-> 0, body |-> [valid |-> FALSE, data |-> NoData]]
Outcomes ==
    [rejected : {FALSE}, response : [status : {HttpOk}, body : Bodies]]
    \cup [rejected : {FALSE},
          response : [status : Statuses \ {HttpOk},
                      body : {[valid |-> FALSE, data |-> NoData]}]]
    \cup [rejected : {TRUE}, response : {NoResponse}]

\* Lines 29-33: the request is issued and the call suspends.
FetchCitationBegin ==
    /\ citePc = "start"
    /\ citePc' = "awaiting"
    /\ UNCHANGED <<citeResp, citeResult, notCite>>

\* The request settles and the rest of the function runs.
FetchCitationEnd ==
    /\ citePc = "awaiting"
    /\ \E outcome \in Outcomes :
          LET r == fetchCitationInfo(outcome)
          IN /\ citeResp' = outcome
             /\ citeResult' = r.value
             /\ citePc' = IF r.raised THEN "raised" ELSE "returned"
    /\ UNCHANGED notCite

CiteNext == FetchCitationBegin \/ FetchCitationEnd

(***************************************************************************)
(* The 'get-text-from-pdf' command.  Every invocation of the callback runs *)
(* between its awaits without interruption; the vault's readBinary, the    *)
(* extractor's extractTextFromPDF and the vault's modify/create settle in  *)
(* steps of their own.  pdf is what the vault holds at '2404.16260v1.pdf'  *)
(* and dest the contents of '2404.16260v1-extracted.md' (NULL: no file).   *)
(***************************************************************************)
Invocations == 1..NumInvocations
Texts == {<<"x">>, <<"y">>}
NoStage == [found |-> FALSE, isFile |-> FALSE, read |-> FALSE, extracted |-> FALSE]

NoticeNotFound == "PDF file not found"
NoticeInvalid == "not a valid file"
NoticeError == "error while processing the PDF"
NoticeUpdated == "existing file updated"
NoticeCreated == "new file created"

\* A variant without the instanceof check: whatever is found is read.
commandBeginUnchecked(file) ==
    IF file = "missing" THEN [pc |-> "done", notice |-> NoticeNotFound]
    ELSE [pc |-> "reading", notice |-> "none"]

\* Lines 92-102 and 122-124: up to the call of readBinary.
commandBegin(file) ==
    IF file = "missing" THEN [pc |-> "done", notice |-> NoticeNotFound]
    ELSE IF file = "file" THEN [pc |-> "reading", notice |-> "none"]
    ELSE [pc |-> "done", notice |-> NoticeInvalid]

\* Line 102-103 and the catch: readBinary settled.
afterRead(ok) ==
    IF ok THEN [pc |-> "extracting", notice |-> "none"]
    ELSE [pc |-> "done", notice |-> NoticeError]

\* Lines 103-116 and the catch: extractTextFromPDF settled; existing is
\* whether getAbstractFileByPath finds the destination.
afterExtract(ok, existing) ==
    IF ~ok THEN [pc |-> "done", notice |-> NoticeError]
    ELSE IF existing THEN [pc |-> "modifying", notice |-> "none"]
    ELSE [pc |-> "creating", notice |-> "none"]

\* Lines 113, 117 and the catch: modify or create settled.
afterWrite(op, ok) ==
    IF ~ok THEN NoticeError
    ELSE IF op = "modifying" THEN NoticeUpdated ELSE NoticeCreated

\* vault.create rejects when the path already holds a file; vault.modify
\* overwrites the file it is given.
VaultAccepts(op, contents) == op = "modifying" \/ contents = NULL

\* The user adds, removes or replaces what the vault holds at the PDF's path.
VaultChangesPdf ==
    /\ \E file \in {"missing", "folder", "file"} : file # pdf /\ pdf' = file
    /\ UNCHANGED <<dest, pc, txt, notice, stage, issued, lastWritten, lastWriterOk, notPdf>>

\* The user runs the command: a new invocation of the callback starts.
Invoke(i) ==
    /\ pc[i] \in {"idle", "done"}
    /\ LET r == commandBegin(pdf)
       IN /\ pc' = [pc EXCEPT ![i] = r.pc]
          /\ notice' = [notice EXCEPT ![i] = r.notice]
    /\ stage' = [stage EXCEPT ![i] = [NoStage EXCEPT !.found = pdf # "missing",
                                                     !.isFile = pdf = "file"]]
    /\ txt' = [txt EXCEPT ![i] = NULL]
    /\ issued' = [issued EXCEPT ![i] = FALSE]
    /\ UNCHANGED <<pdf, dest, lastWritten, lastWriterOk, notPdf>>

ReadSettles(i) ==
    /\ pc[i] = "reading"
    /\ \E ok \in BOOLEAN :
          LET r == afterRead(ok)
          IN /\ pc' = [pc EXCEPT ![i] = r.pc]
             /\ notice' = [notice EXCEPT ![i] = r.notice]
             /\ stage' = [stage EXCEPT ![i].read = ok]
    /\ UNCHANGED <<pdf, dest, txt, issued, lastWritten, lastWriterOk, notPdf>>

ExtractSettles(i) ==
    /\ pc[i] = "extracting"
    /\ \E ok \in BOOLEAN, extractedText \in Texts :
          LET r == afterExtract(ok, dest # NULL)
          IN /\ pc' = [pc EXCEPT ![i] = r.pc]
             /\ notice' = [notice EXCEPT ![i] = r.notice]
             /\ stage' = [stage EXCEPT ![i].extracted = ok]
             /\ txt' = [txt EXCEPT ![i] = IF r.pc = "done" THEN NULL ELSE extractedText]
             /\ issued' = [issued EXCEPT ![i] = r.pc # "done"]
    /\ UNCHANGED <<pdf, dest, lastWritten, lastWriterOk, notPdf>>

WriteSettles(i) ==
    /\ pc[i] \in {"modifying", "creating"}
    /\ LET ok == VaultAccepts(pc[i], dest)
       IN /\ dest' = IF ok THEN txt[i] ELSE dest
          /\ lastWritten' = IF ok THEN txt[i] ELSE lastWritten
          /\ lastWriterOk' = IF ok THEN \A f \in DOMAIN NoStage : stage[i][f]
                             ELSE lastWriterOk
          /\ notice' = [notice EXCEPT ![i] = afterWrite(pc[i], ok)]
    /\ pc' = [pc EXCEPT ![i] = "done"]
    /\ txt' = [txt EXCEPT ![i] = NULL]
    /\ UNCHANGED <<pdf, stage, issued, notPdf>>

PdfNext ==
    \/ VaultChangesPdf
    \/ \E i \in Invocations :
          Invoke(i) \/ ReadSettles(i) \/ ExtractSettles(i) \/ WriteSettles(i)

(***************************************************************************)
(* Specifications: one per part of the program.  In each, the other parts  *)
(* are not running and their state stays as it is.                         *)
(***************************************************************************)
AbsInit ==
    /\ absText \in StringsUpTo(AbstractAlphabet, MaxAbstractLen)
    /\ absOut = NULL
    /\ absOut2 = NULL
    /\ absPc = "input"
    /\ url = <<>>
    /\ metaPc = "idle"
    /\ requests = <<>>
    /\ metaResp = <<>>
    /\ metaResult = <<>>
    /\ metaError = "none"
    /\ papersIn = Absent
    /\ papersOut = [threw |-> FALSE, value |-> <<>>]
    /\ filterPc = "idle"
    /\ citePc = "idle"
    /\ citeResp = [rejected |-> FALSE, response |-> NoResponse]
    /\ citeResult = ZeroCitationInfo
    /\ pdf = "missing"
    /\ dest = NULL
    /\ pc = [i \in Invocations |-> "off"]
    /\ txt = [i \in Invocations |-> NULL]
    /\ notice = [i \in Invocations |-> "none"]
    /\ stage = [i \in Invocations |-> NoStage]
    /\ issued = [i \in Invocations |-> FALSE]
    /\ lastWritten = NULL
    /\ lastWriterOk = TRUE

SpecAbstract == AbsInit /\ [][AbsNext]_vars

MetaInit ==
    /\ url \in Urls
    /\ metaPc = "start"
    /\ requests = <<>>
    /\ metaResp = <<>>
    /\ metaResult = <<>>
    /\ metaError = "none"
    /\ absText = <<>>
    /\ absOut = NULL
    /\ absOut2 = NULL
    /\ absPc = "idle"
    /\ papersIn = Absent
    /\ papersOut = [threw |-> FALSE, value |-> <<>>]
    /\ filterPc = "idle"
    /\ citePc = "idle"
    /\ citeResp = [rejected |-> FALSE, response |-> NoResponse]
    /\ citeResult = ZeroCitationInfo
    /\ pdf = "missing"
    /\ dest = NULL
    /\ pc = [i \in Invocations |-> "off"]
    /\ txt = [i \in Invocations |-> NULL]
    /\ notice = [i \in Invocations |-> "none"]
    /\ stage = [i \in Invocations |-> NoStage]
    /\ issued = [i \in Invocations |-> FALSE]
    /\ lastWritten = NULL
    /\ lastWriterOk = TRUE

SpecMeta == MetaInit /\ [][MetaNext]_vars

FilterInit ==
    /\ papersIn \in PaperLists
    /\ papersOut = [threw |-> FALSE, value |-> <<>>]
    /\ filterPc = "input"
    /\ absText = <<>>
    /\ absOut = NULL
    /\ absOut2 = NULL
    /\ absPc = "idle"
    /\ url = <<>>
    /\ metaPc = "idle"
    /\ requests = <<>>
    /\ metaResp = <<>>
    /\ metaResult = <<>>
    /\ metaError = "none"
    /\ citePc = "idle"
    /\ citeResp = [rejected |-> FALSE, response |-> NoResponse]
    /\ citeResult = ZeroCitationInfo
    /\ pdf = "missing"
    /\ dest = NULL
    /\ pc = [i \in Invocations |-> "off"]
    /\ txt = [i \in Invocations |-> NULL]
    /\ notice = [i \in Invocations |-> "none"]
    /\ stage = [i \in Invocations |-> NoStage]
    /\ issued = [i \in Invocations |-> FALSE]
    /\ lastWritten = NULL
    /\ lastWriterOk = TRUE

SpecFilter == FilterInit /\ [][FilterNext]_vars

CiteInit ==
    /\ citePc = "start"
    /\ citeResp = [rejected |-> FALSE, response |-> NoResponse]
    /\ citeResult = ZeroCitationInfo
    /\ absText = <<>>
    /\ absOut = NULL
    /\ absOut2 = NULL
    /\ absPc = "idle"
    /\ url = <<>>
    /\ metaPc = "idle"
    /\ requests = <<>>
    /\ metaResp = <<>>
    /\ metaResult = <<>>
    /\ metaError = "none"
    /\ papersIn = Absent
    /\ papersOut = [threw |-> FALSE, value |-> <<>>]
    /\ filterPc = "idle"
    /\ pdf = "missing"
    /\ dest = NULL
    /\ pc = [i \in Invocations |-> "off"]
    /\ txt = [i \in Invocations |-> NULL]
    /\ notice = [i \in Invocations |-> "none"]
    /\ stage = [i \in Invocations |-> NoStage]
    /\ issued = [i \in Invocations |-> FALSE]
    /\ lastWritten = NULL
    /\ lastWriterOk = TRUE

SpecCite == CiteInit /\ [][CiteNext]_vars

PdfInit ==
    /\ pdf \in {"missing", "folder", "file"}
    /\ dest \in {NULL} \cup Texts
    /\ pc = [i \in Invocations |-> "idle"]
    /\ txt = [i \in Invocations |-> NULL]
    /\ notice = [i \in Invocations |-> "none"]
    /\ stage = [i \in Invocations |-> NoStage]
    /\ issued = [i \in Invocations |-> FALSE]
    /\ lastWritten = dest
    /\ lastWriterOk = TRUE
    /\ absText = <<>>
    /\ absOut = NULL
    /\ absOut2 = NULL
    /\ absPc = "idle"
    /\ url = <<>>
    /\ metaPc = "idle"
    /\ requests = <<>>
    /\ metaResp = <<>>
    /\ metaResult = <<>>
    /\ metaError = "none"
    /\ papersIn = Absent
    /\ papersOut = [threw |-> FALSE, value |-> <<>>]
    /\ filterPc = "idle"
    /\ citePc = "idle"
    /\ citeResp = [rejected |-> FALSE, response |-> NoResponse]
    /\ citeResult = ZeroCitationInfo

SpecPdf == PdfInit /\ [][PdfNext]_vars

(***************************************************************************)
(* Properties.                                                             *)
(***************************************************************************)
AllStagesOk(st) == st.found /\ st.isFile /\ st.read /\ st.extracted

\* The request failed, or answered something fetchCitationInfo cannot use.
CitationFailure(o) ==
    \/ o.rejected
    \/ o.response.status # HttpOk
    \/ ~o.response.body.valid
    \/ /\ o.response.body.data.k = "object"
       /\ \/ getInfluentialPapers(o.response.body.data.citations).threw
          \/ getInfluentialPapers(o.response.body.data.references).threw

\* C1: fetchCitationInfo never raises to its caller, and after a transport
\* failure, a status other than 200, a body that is not JSON or lists that
\* cannot be filtered it returns exactly the zero-value CitationInfo.
C1_CitationNeverRaises ==
    /\ citePc # "raised"
    /\ citePc = "returned" /\ CitationFailure(citeResp)
          => citeResult = ZeroCitationInfo

\* A 200 response with counts and a citations list that cannot be filtered
\* has been answered with the zero value.
C1_Witness ==
    /\ citePc = "returned"
    /\ ~citeResp.rejected
    /\ citeResp.response.status = HttpOk
    /\ citeResp.response.body.valid
    /\ citeResp.response.body.data.k = "object"
    /\ citeResp.response.body.data.numCitedBy = JsNum(3)
    /\ citeResp.response.body.data.citations = ArrayOf(<<NullPaper>>)
    /\ citeResult = ZeroCitationInfo

\* C2: a 200 response whose feed has no entry makes fetchArxivMetadata fail
\* with NotFound and return nothing; with at least one entry the result is
\* built from the first entry of the feed.
C2_FirstEntryOrNotFound ==
    metaResp # <<>> /\ metaResp[1].status = HttpOk =>
        LET feed == metaResp[1].feed
        IN IF feed = <<>>
           THEN metaPc = "failed" /\ metaError = "NotFound" /\ metaResult = <<>>
           ELSE /\ metaPc = "done"
                /\ Len(metaResult) = 1
                /\ metaResult[1].paperLink =
                       (IF feed[1].id = NULL THEN <<>> ELSE feed[1].id)
                /\ metaResult[1].authors = Join(feed[1].authors, <<",", " ">>)

\* A feed of two entries has been parsed into the first one's link.
C2_Witness ==
    /\ metaPc = "done"
    /\ Len(metaResp[1].feed) = 2
    /\ metaResp[1].feed[1].id = PaperLink
    /\ metaResult[1].paperLink = PaperLink

\* The text before the first 'T' of s (all of s when it has none).
BeforeFirstT(s) ==
    LET ts == {i \in 1..Len(s) : s[i] = "T"}
    IN IF ts = {} THEN s ELSE SubSeq(s, 1, Min(ts) - 1)

\* What C3 says of every field but the date of a present published element.
C3_Defaults ==
    metaResp # <<>> /\ metaResp[1].status = HttpOk /\ metaResp[1].feed # <<>> =>
        LET entry == metaResp[1].feed[1]
        IN /\ metaPc = "done"
           /\ Len(metaResult) = 1
           /\ entry.title = NULL => metaResult[1].title = NoTitle
           /\ entry.id = NULL => metaResult[1].paperLink = <<>>
           /\ entry.published = NULL => metaResult[1].publishDate = NoDate
           /\ entry.summary = NULL =>
                  /\ metaResult[1].abstract = formatAbstract(NoAbstract)
                  /\ metaResult[1].abstract = NoAbstract

\* C3 as stated: once the feed has an entry parsing never fails, missing
\* elements give the literal fallbacks, and a present published element
\* gives the substring before its first 'T'.
C3_AsStated ==
    /\ C3_Defaults
    /\ metaPc = "done" /\ metaResp[1].feed[1].published # NULL
          => metaResult[1].publishDate = BeforeFirstT(metaResp[1].feed[1].published)

\* C3 as amended: a present published element gives the substring before
\* its first 'T' when that substring is not empty, and the no-date literal
\* when it is empty; the rest as stated.
C3_DefaultsAndDate ==
    /\ C3_Defaults
    /\ metaPc = "done" /\ metaResp[1].feed[1].published # NULL
          => metaResult[1].publishDate =
                 (IF BeforeFirstT(metaResp[1].feed[1].published) = <<>>
                  THEN NoDate
                  ELSE BeforeFirstT(metaResp[1].feed[1].published))

\* An entry without title, id and summary whose published text starts with
\* 'T' has been parsed.
C3_Witness ==
    /\ metaPc = "done"
    /\ metaResp[1].feed[1].title = NULL
    /\ metaResp[1].feed[1].id = NULL
    /\ metaResp[1].feed[1].summary = NULL
    /\ metaResp[1].feed[1].published = <<"T", "2">>
    /\ metaResult[1].publishDate = NoDate
    /\ metaResult[1].title = NoTitle

\* The ', '-joined names of a raw record's authors ('' when it has none).
ExpectedAuthors(paper) ==
    IF paper.authors.k = "undefined" THEN <<>>
    ELSE Join([i \in 1..Len(paper.authors.items) |-> paper.authors.items[i].name.s],
              <<",", " ">>)

\* The j-th smallest element of the set of positions S.
Nth(S, j) == CHOOSE i \in S : Cardinality({m \in S : m <= i}) = j

\* C4: the filter returns exactly the records whose isInfluential flag is
\* truthy, in input order, each with its authors flattened to the
\* ', '-joined names; an absent list gives the empty sequence, no error.
C4_FilterKeepsInfluentialInOrder ==
    filterPc = "done" =>
        /\ ~papersOut.threw
        /\ papersIn = Absent => papersOut.value = <<>>
        /\ LET items == papersIn.items
               out == papersOut.value
               flagged == {i \in 1..Len(items) : Truthy(items[i].isInfluential)}
           IN /\ Len(out) = Cardinality(flagged)
              /\ \A j \in 1..Len(out) :
                    LET raw == items[Nth(flagged, j)]
                    IN /\ out[j].paperId = raw.paperId
                       /\ out[j].title = raw.title
                       /\ out[j].citationCount = raw.citationCount
                       /\ out[j].isInfluential = raw.isInfluential
                       /\ out[j].authors = ExpectedAuthors(raw)

\* Three papers of which only the second is influential have been filtered
\* to that one paper, with its two authors joined.
C4_Witness ==
    /\ filterPc = "done"
    /\ papersIn.k = "array"
    /\ Len(papersIn.items) = 3
    /\ papersIn.items[1].isInfluential = JsFalse
    /\ papersIn.items[2].isInfluential = JsTrue
    /\ papersIn.items[3].isInfluential = JsUndefined
    /\ papersIn.items[2].authors.k = "array"
    /\ Len(papersIn.items[2].authors.items) = 2
    /\ Len(papersOut.value) = 1
    /\ papersOut.value[1].paperId = 2
    /\ papersOut.value[1].authors = <<"A", ",", " ", "B">>

\* C5: when extractArxivId gives null, fetchArxivMetadata fails with
\* InvalidInput before any request: no request is sent and nothing is
\* returned; a request is only ever sent for an extracted identifier.
C5_InvalidInputBeforeRequest ==
    /\ extractArxivId(url) = NULL /\ metaPc \notin {"idle", "start"} =>
          /\ metaPc = "failed"
          /\ metaError = "InvalidInput"
          /\ requests = <<>>
          /\ metaResp = <<>>
          /\ metaResult = <<>>
    /\ requests # <<>> =>
          /\ extractArxivId(url) # NULL
          /\ Len(requests) = 1
          /\ requests[1].url = ApiUrl(extractArxivId(url))

\* The call for a text that holds no identifier has failed.
C5_Witness ==
    /\ url = <<"n", "o", "t", " ", "a", " ", "u", "r", "l">>
    /\ metaPc = "failed"
    /\ metaError = "InvalidInput"
    /\ requests = <<>>

\* The number of maximal runs of newlines in s.
NewlineRuns(s) ==
    Cardinality({i \in 1..Len(s) : s[i] = Newline /\ (i = 1 \/ s[i - 1] # Newline)})

\* The pieces of s between its runs of newlines.
Pieces(s) == Split(ReplaceRuns(s, {Newline}, <<Newline>>), Newline)

\* C6: an input whose trimmed text has k >= 1 runs of newlines separating
\* non-empty text is normalized to k + 1 trimmed paragraphs separated by
\* exactly one blank line, the other whitespace runs collapsed to a space.
C6_ParagraphsRejoined ==
    absPc \in {"once", "twice"} =>
        LET t == Trim(absText)
            k == NewlineRuns(t)
            paras == [i \in 1..Len(Pieces(t)) |->
                         Trim(ReplaceRuns(Pieces(t)[i], {" ", "\t"}, <<" ">>))]
        IN k >= 1 /\ (\A i \in 1..Len(paras) : paras[i] # <<>>) =>
              /\ Len(paras) = k + 1
              /\ absOut = Join(paras, <<Newline, Newline>>)

\* C7: normalization is idempotent, formatAbstract(formatAbstract(s)) =
\* formatAbstract(s).
C7_Idempotent == absPc = "twice" => absOut2 = absOut

\* A text with a newline between two letters has been normalized twice,
\* and the first normalization changed it.
C7_Witness ==
    /\ absPc = "twice"
    /\ absText = <<"a", "\n", "a", " ">>
    /\ absOut # absText
    /\ absOut2 = absOut

IsCount(v) == v.k = "number" /\ v.n >= 0

\* C8: in every CitationInfo that fetchCitationInfo returns, numCitedBy and
\* numCiting are integers >= 0, whatever the body's fields hold.
C8_CountsAreNaturals ==
    citePc = "returned" =>
        IsCount(citeResult.numCitedBy) /\ IsCount(citeResult.numCiting)

\* C9: every invocation whose read and extraction succeeded completes its
\* write without error, and the destination holds the text written last.
C9_EveryWriteCompletes ==
    /\ \A i \in Invocations :
          pc[i] = "done" /\ AllStagesOk(stage[i])
              => notice[i] \in {NoticeUpdated, NoticeCreated}
    /\ dest = lastWritten

\* C10: the destination is written only by invocations that found the PDF,
\* found it to be a file, read it and extracted its text; any other
\* invocation issues no create and no modify and ends with a notice.
C10_OnlySuccessfulPipelinesWrite ==
    /\ \A i \in Invocations :
          /\ issued[i] \/ pc[i] \in {"modifying", "creating"}
                => AllStagesOk(stage[i])
          /\ pc[i] = "done" /\ ~AllStagesOk(stage[i]) =>
                /\ ~issued[i]
                /\ notice[i] \in {NoticeNotFound, NoticeInvalid, NoticeError}
                /\ ~stage[i].found => notice[i] = NoticeNotFound
                /\ stage[i].found /\ ~stage[i].isFile => notice[i] = NoticeInvalid
    /\ lastWriterOk

\* One invocation has failed at the extraction and ended with the error
\* notice while another has written the destination.
C10_Witness ==
    \E i, j \in Invocations :
        /\ pc[i] = "done" /\ stage[i].read /\ ~stage[i].extracted
        /\ notice[i] = NoticeError /\ ~issued[i]
        /\ pc[j] = "done" /\ notice[j] = NoticeCreated
        /\ dest # NULL

====
